---- MODULE Spec2Model ----
(***************************************************************************)
(* A model of vkdialogsparser: the dialog dumper's worker pool            *)
(* (modules/dialogs.py), the bounded wall paginator, the image cache, the *)
(* link markup and the normalizers (modules/posts.py), and the JSON to    *)
(* HTML script (json_to_html.py).  Strings are sequences of one-character *)
(* strings.                                                               *)
(***************************************************************************)
EXTENDS Integers, Sequences, FiniteSets, TLC

VARIABLES
    \* ---- DialogsManager.dump_dialogs and its handle_messages workers ----
    dialogs,            \* the list get_dialogs returned
    thread_count,       \* config.thread_count
    export_formats,     \* config.export_formats
    mainpc,             \* where dump_dialogs is
    started,            \* number of worker threads started so far
    nput,               \* number of dialogs put on the queue so far
    queue,              \* Queue: the items waiting
    unfinished_tasks,   \* Queue.unfinished_tasks
    wpc,                \* each worker's position in handle_messages
    wdialog,            \* the dialog a worker holds (0: none), an index of dialogs
    wmessages,          \* the "messages" list a worker built
    files,              \* the output directory: path -> what was written
    writes,             \* every write made so far: {[path, peer_id]}
    fetchFailed,        \* indices of the dialogs whose get_history took its except branch
    saveFailed,         \* indices of the dialogs whose save_dialog raised
    nsaves,             \* per dialog, the number of save_dialog calls that returned
    ndone,              \* number of task_done calls so far
    \* ---- PostsManager.get_community_posts ----
    community_numeric,  \* whether community_id is a numeric id (else a domain name)
    count,              \* the count argument (config.posts_count)
    include_comments,   \* config.include_comments
    include_reactions,  \* config.include_reactions
    commentsFailId,     \* the post whose wall.getComments call raises (0: none)
    likesFailId,        \* the post whose likes.getList call raises (0: none)
    postpc,             \* where get_community_posts is
    all_posts,          \* the accumulated list
    offset,             \* the offset of the next wall.get call
    owner_id,           \* the owner id (0: None)
    calls,              \* every wall.get call issued: <<[count, offset]>>
    pages,              \* the number of items each answered call returned
    errorAt,            \* the index in calls of the call that raised (0: none)
    resolvedFrom,       \* where the page a domain call resolved the owner id on
                        \* carried it ("": no such page yet)
    result,             \* what get_community_posts returned
    \* ---- download_image / get_cached_image_path ----
    imgpc,              \* "run" while the renderer resolves image urls
    img_url,            \* the url resolved
    cache,              \* the cache directory: file name -> "complete" or "partial"
    fetches,            \* number of requests.get calls so far
    resolves,           \* one record per get_cached_image_path call
    \* ---- _generate_message_link ----
    linkpc,             \* "call" before the call, "done" after it
    link_peer,          \* the peer_id argument
    link_msg,           \* the message_id argument
    link_out,           \* the link returned
    \* ---- _clean_filename ----
    cleanpc,            \* "call" before the call, "done" after it
    clean_in,           \* the filename argument
    clean_out,          \* what the two _clean_filename methods returned
    \* ---- parse_vk_links ----
    markuppc,           \* "call" before the call, "done" after it
    markup_segs,        \* the pieces the text argument is made of
    markup_in,          \* the text argument: [isNone, chars]
    markup_out,         \* what parse_vk_links returned
    \* ---- _format_forwarded_messages / _format_copy_history ----
    normpc,             \* "call" before the calls, "done" after them
    raw_fwd,            \* a raw message's fwd_messages
    raw_copy,           \* a raw post's copy_history
    out_fwd,            \* _format_forwarded_messages(raw_fwd): [raised, list]
    out_copy,           \* _format_copy_history(raw_copy)
    \* ---- json_to_html.main ----
    convpc,             \* where main is
    conv_file,          \* what is at json_file_path
    conv_message,       \* the error main printed ("": none)
    conv_success,       \* what main returned
    conv_exit,          \* the exit status of the script (-1: still running)
    conv_written,       \* what was created next to the JSON file
    \* ---- get_history ----
    histpc,             \* "call" before the call, "done" after it
    hist_peer,          \* the dialog_id argument
    hist_answer,        \* what vk_tools.get_all answered: [ok, items]
    hist_out,           \* the list get_history returned
    \* ---- the rendering of a post text in save_posts_html ----
    renderpc,           \* "call" before the rendering, "done" after it
    render_segs,        \* the pieces the post text is made of
    render_in,          \* post.get('text', '')
    render_out,         \* the post_text put into the page
    \* ---- main.py: main and its handle_messages threads ----
    legacypc,           \* where main is
    legacy_threads,     \* int(threads)
    legacy_ndialogs,    \* how many dialogs getDialogs yields
    legacy_started,     \* threads started so far
    legacy_nput,        \* dialogs put on the queue so far
    legacy_queue,       \* the queue: dialog numbers
    legacy_unfinished,  \* the queue's count of tasks not marked done
    lwpc,               \* where each thread is
    lwdialog,           \* the dialog each thread holds (0: none)
    legacy_saved        \* the dialogs whose file was written

dumpVars == <<dialogs, thread_count, export_formats, mainpc, started, nput, queue,
              unfinished_tasks, wpc, wdialog, wmessages, files, writes,
              fetchFailed, saveFailed, nsaves, ndone>>

postsVars == <<community_numeric, count, include_comments, include_reactions,
               commentsFailId, likesFailId, postpc, all_posts, offset, owner_id,
               calls, pages, errorAt, resolvedFrom, result>>

imageVars == <<imgpc, img_url, cache, fetches, resolves>>

linkVars == <<linkpc, link_peer, link_msg, link_out>>

cleanVars == <<cleanpc, clean_in, clean_out>>

markupVars == <<markuppc, markup_segs, markup_in, markup_out>>

normVars == <<normpc, raw_fwd, raw_copy, out_fwd, out_copy>>

convVars == <<convpc, conv_file, conv_message, conv_success, conv_exit, conv_written>>

histVars == <<histpc, hist_peer, hist_answer, hist_out>>

renderVars == <<renderpc, render_segs, render_in, render_out>>

legacyVars == <<legacypc, legacy_threads, legacy_ndialogs, legacy_started, legacy_nput,
                legacy_queue, legacy_unfinished, lwpc, lwdialog, legacy_saved>>

fnVars == <<cleanVars, markupVars, normVars, convVars, histVars, renderVars, legacyVars>>

vars == <<dumpVars, postsVars, imageVars, linkVars, fnVars>>

\* What the steps of one part leave alone: the state of the other parts.
notDump == <<postsVars, imageVars, linkVars, fnVars>>

notPosts == <<dumpVars, imageVars, linkVars, fnVars>>

notImage == <<dumpVars, postsVars, linkVars, fnVars>>

notLink == <<dumpVars, postsVars, imageVars, fnVars>>

notClean ==
    <<dumpVars, postsVars, imageVars, linkVars, markupVars, normVars, convVars,
      histVars, renderVars, legacyVars>>

notMarkup ==
    <<dumpVars, postsVars, imageVars, linkVars, cleanVars, normVars, convVars,
      histVars, renderVars, legacyVars>>

notNorm ==
    <<dumpVars, postsVars, imageVars, linkVars, cleanVars, markupVars, convVars,
      histVars, renderVars, legacyVars>>

notHist ==
    <<dumpVars, postsVars, imageVars, linkVars, cleanVars, markupVars, normVars, convVars,
      renderVars, legacyVars>>

notRender ==
    <<dumpVars, postsVars, imageVars, linkVars, cleanVars, markupVars, normVars, convVars,
      histVars, legacyVars>>

notLegacy ==
    <<dumpVars, postsVars, imageVars, linkVars, cleanVars, markupVars, normVars, convVars,
      histVars, renderVars>>

notConv ==
    <<dumpVars, postsVars, imageVars, linkVars, cleanVars, markupVars, normVars,
      histVars, renderVars, legacyVars>>

\* ------------------------------------------------------------------ bounds
MaxDialogs == 2
MaxThreads == 2
MaxHistory == 1

Min(a, b) == IF a < b THEN a ELSE b

\* ----------------------------------------------------------------- strings
invalid_chars == {"<", ">", ":", "\"", "/", "\\", "|", "?", "*"}

FILENAME_LIMIT == 100

\* Mutant of _clean_filename: the result is not cut to the first 100 characters.
_clean_filename_uncut(filename) ==
    [i \in 1..Len(filename) |->
        IF filename[i] \in invalid_chars THEN "_" ELSE filename[i]]

\* DialogsManager._clean_filename: every invalid character becomes "_", then
\* the first 100 characters are kept.
_clean_filename(filename) ==
    LET replaced == [i \in 1..Len(filename) |->
                        IF filename[i] \in invalid_chars THEN "_" ELSE filename[i]]
    IN  SubSeq(replaced, 1, Min(FILENAME_LIMIT, Len(replaced)))

\* ------------------------------------------------------------ message links
CHAT_OFFSET == 2000000000

\* DialogsManager._generate_message_link: the tokens of the f-string.
_generate_message_link(peer_id, message_id) ==
    IF peer_id > 0
      THEN <<"https://vk.com/im?sel=", peer_id, "&msgid=", message_id>>
      ELSE IF peer_id < 0
        THEN <<"https://vk.com/im?sel=", peer_id, "&msgid=", message_id>>
        ELSE <<"https://vk.com/im?sel=c", peer_id - CHAT_OFFSET, "&msgid=", message_id>>

\* ------------------------------------------------------------- get_history
\* dialogs.py imports json, os, vk_api, time, Thread, Queue and typing only:
\* the name datetime that format_message uses is not bound in the module.
DatetimeImported == FALSE

\* format_message of get_history; it raises NameError when datetime is
\* evaluated unbound.
format_message(message, dialog_id) ==
    IF ~DatetimeImported
      THEN [raised |-> TRUE]
      ELSE [raised     |-> FALSE,
            message_id |-> message.id,
            dialog_id  |-> dialog_id,
            vk_link    |-> _generate_message_link(dialog_id, message.id)]

\* What vk_tools.get_all("messages.getHistory") can answer: an error, or k items.
HistoryAnswers ==
    {[ok |-> FALSE, items |-> <<>>]} \cup
    {[ok |-> TRUE, items |-> [i \in 1..k |-> [id |-> i]]] : k \in 0..MaxHistory}

\* Whether get_history leaves through its except branch.
HistoryRaises(dialog_id, answer) ==
    \/ ~answer.ok
    \/ \E i \in 1..Len(answer.items) :
          format_message(answer.items[i], dialog_id).raised

\* DialogsManager.get_history: the list it returns.
get_history(dialog_id, answer) ==
    IF HistoryRaises(dialog_id, answer)
      THEN <<>>
      ELSE [i \in 1..Len(answer.items) |-> format_message(answer.items[i], dialog_id)]

\* ------------------------------------------------------------- save_dialog
SaveOutcomes == {"ok", "error_before_write", "error_after_json"}

PathOf(title, ext) == [name |-> _clean_filename(title), ext |-> ext]

\* The formats save_dialog gets to write before outcome o stops it.
FormatsWritten(o) ==
    CASE o = "ok"               -> export_formats
      [] o = "error_after_json" -> export_formats \cap {"json"}
      [] OTHER                  -> {}

\* DialogsManager.save_dialog: the directory after the call.
save_dialog(fs, dialog, messages, o) ==
    LET new == {PathOf(dialog.title, e) : e \in FormatsWritten(o)}
    IN  [p \in DOMAIN fs \cup new |->
            IF p \in new
              THEN [peer_id |-> dialog.peer_id, title |-> dialog.title,
                    messages |-> messages]
              ELSE fs[p]]

\* ------------------------------------------------------------------ inputs
TitleInputs == {<<"a", ":">>, <<"a", "/">>, <<"b">>}

PeerIdOf(i) ==
    CASE i % 3 = 1 -> i
      [] i % 3 = 2 -> -i
      [] OTHER     -> CHAT_OFFSET + i

PeerTypeOf(i) ==
    CASE i % 3 = 1 -> "user"
      [] i % 3 = 2 -> "group"
      [] OTHER     -> "chat"

DialogLists ==
    UNION {{[i \in 1..n |-> [title |-> t[i], peer_id |-> PeerIdOf(i),
                             type |-> PeerTypeOf(i)]] : t \in [1..n -> TitleInputs]}
           : n \in 0..MaxDialogs}

Workers == 1..MaxThreads

\* --------------------------------------------------------------- dump_dialogs
DumpInit ==
    /\ dialogs \in DialogLists
    /\ thread_count \in 1..MaxThreads
    /\ export_formats \in {{"json"}, {"html"}, {"json", "html"}}
    /\ mainpc = "confirm"
    /\ started = 0
    /\ nput = 0
    /\ queue = <<>>
    /\ unfinished_tasks = 0
    /\ wpc = [w \in Workers |-> "unstarted"]
    /\ wdialog = [w \in Workers |-> 0]
    /\ wmessages = [w \in Workers |-> <<>>]
    /\ files = <<>>
    /\ writes = {}
    /\ fetchFailed = {}
    /\ saveFailed = {}
    /\ nsaves = [i \in 1..Len(dialogs) |-> 0]
    /\ ndone = 0

\* dump_dialogs up to the thread setup: no dialogs, or the operator declines, or
\* os.makedirs raises: return False.
Begin ==
    /\ mainpc = "confirm"
    /\ \E confirm \in BOOLEAN, mkdirOk \in BOOLEAN :
          mainpc' = IF dialogs # <<>> /\ confirm /\ mkdirOk
                      THEN "start_threads" ELSE "returned_false"
    /\ UNCHANGED notDump
    /\ UNCHANGED <<dialogs, thread_count, export_formats, started, nput, queue,
                   unfinished_tasks, wpc, wdialog, wmessages, files, writes,
                   fetchFailed, saveFailed, nsaves, ndone>>

\* for _ in range(thread_count): Thread(target=handle_messages).start()
StartThread ==
    /\ mainpc = "start_threads"
    /\ started < thread_count
    /\ started' = started + 1
    /\ wpc' = [wpc EXCEPT ![started + 1] = "get"]
    /\ mainpc' = IF started + 1 = thread_count THEN "put" ELSE mainpc
    /\ UNCHANGED notDump
    /\ UNCHANGED <<dialogs, thread_count, export_formats, nput, queue,
                   unfinished_tasks, wdialog, wmessages, files, writes,
                   fetchFailed, saveFailed, nsaves, ndone>>

\* Mutant of Put: the loop is left after the first dialog.
PutFirstOnly ==
    /\ mainpc = "put"
    /\ nput < Len(dialogs)
    /\ queue' = Append(queue, nput + 1)
    /\ unfinished_tasks' = unfinished_tasks + 1
    /\ nput' = nput + 1
    /\ mainpc' = "join"
    /\ UNCHANGED notDump
    /\ UNCHANGED <<dialogs, thread_count, export_formats, started, wpc, wdialog,
                   wmessages, files, writes, fetchFailed, saveFailed, nsaves, ndone>>

\* for dialog in dialogs: queue.put(dialog)
Put ==
    /\ mainpc = "put"
    /\ nput < Len(dialogs)
    /\ queue' = Append(queue, nput + 1)
    /\ unfinished_tasks' = unfinished_tasks + 1
    /\ nput' = nput + 1
    /\ mainpc' = IF nput + 1 = Len(dialogs) THEN "join" ELSE mainpc
    /\ UNCHANGED notDump
    /\ UNCHANGED <<dialogs, thread_count, export_formats, started, wpc, wdialog,
                   wmessages, files, writes, fetchFailed, saveFailed, nsaves, ndone>>

\* Mutant of Join: the wait ends when the queue is empty, not when every task is done.
JoinOnEmptyQueue ==
    /\ mainpc = "join"
    /\ queue = <<>>
    /\ mainpc' = "returned_true"
    /\ UNCHANGED notDump
    /\ UNCHANGED <<dialogs, thread_count, export_formats, started, nput, queue,
                   unfinished_tasks, wpc, wdialog, wmessages, files, writes,
                   fetchFailed, saveFailed, nsaves, ndone>>

\* queue.join() returns once unfinished_tasks is 0; dump_dialogs returns True.
Join ==
    /\ mainpc = "join"
    /\ unfinished_tasks = 0
    /\ mainpc' = "returned_true"
    /\ UNCHANGED notDump
    /\ UNCHANGED <<dialogs, thread_count, export_formats, started, nput, queue,
                   unfinished_tasks, wpc, wdialog, wmessages, files, writes,
                   fetchFailed, saveFailed, nsaves, ndone>>

\* handle_messages: dialog = q.get(), blocking while the queue is empty.
WorkerGet(w) ==
    /\ wpc[w] = "get"
    /\ queue # <<>>
    /\ wdialog' = [wdialog EXCEPT ![w] = Head(queue)]
    /\ queue' = Tail(queue)
    /\ wpc' = [wpc EXCEPT ![w] = "history"]
    /\ UNCHANGED notDump
    /\ UNCHANGED <<dialogs, thread_count, export_formats, mainpc, started, nput,
                   unfinished_tasks, wmessages, files, writes, fetchFailed, saveFailed, nsaves, ndone>>

\* Mutant of WorkerHistory: a dialog whose fetch failed is skipped, marked done
\* without a call of save_dialog.
WorkerHistorySkip(w) ==
    /\ wpc[w] = "history"
    /\ \E answer \in HistoryAnswers :
          LET peer == dialogs[wdialog[w]].peer_id IN
          /\ wmessages' = [wmessages EXCEPT ![w] = get_history(peer, answer)]
          /\ fetchFailed' = IF HistoryRaises(peer, answer)
                              THEN fetchFailed \cup {wdialog[w]} ELSE fetchFailed
          /\ wpc' = [wpc EXCEPT ![w] =
                        IF HistoryRaises(peer, answer) THEN "done" ELSE "save"]
    /\ UNCHANGED notDump
    /\ UNCHANGED <<dialogs, thread_count, export_formats, mainpc, started, nput,
                   queue, unfinished_tasks, wdialog, files, writes, saveFailed, nsaves, ndone>>

\* handle_messages: messages = {..., "messages": self.get_history(peer_id)}
WorkerHistory(w) ==
    /\ wpc[w] = "history"
    /\ \E answer \in HistoryAnswers :
          LET peer == dialogs[wdialog[w]].peer_id IN
          /\ wmessages' = [wmessages EXCEPT ![w] = get_history(peer, answer)]
          /\ fetchFailed' = IF HistoryRaises(peer, answer)
                              THEN fetchFailed \cup {wdialog[w]} ELSE fetchFailed
    /\ wpc' = [wpc EXCEPT ![w] = "save"]
    /\ UNCHANGED notDump
    /\ UNCHANGED <<dialogs, thread_count, export_formats, mainpc, started, nput,
                   queue, unfinished_tasks, wdialog, files, writes, saveFailed, nsaves, ndone>>

\* handle_messages: self.save_dialog(messages, directory); an exception of
\* save_dialog is caught nowhere and ends the thread.
WorkerSave(w) ==
    /\ wpc[w] = "save"
    /\ \E o \in SaveOutcomes :
          /\ o = "error_after_json" => "html" \in export_formats
          /\ files' = save_dialog(files, dialogs[wdialog[w]], wmessages[w], o)
          /\ writes' = writes \cup
                {[path |-> PathOf(dialogs[wdialog[w]].title, e),
                  peer_id |-> dialogs[wdialog[w]].peer_id] : e \in FormatsWritten(o)}
          /\ saveFailed' = IF o = "ok" THEN saveFailed ELSE saveFailed \cup {wdialog[w]}
          /\ nsaves' = IF o = "ok"
                         THEN [nsaves EXCEPT ![wdialog[w]] = @ + 1]
                         ELSE nsaves
          /\ wpc' = [wpc EXCEPT ![w] = IF o = "ok" THEN "done" ELSE "dead"]
    /\ UNCHANGED notDump
    /\ UNCHANGED <<dialogs, thread_count, export_formats, mainpc, started, nput,
                   queue, unfinished_tasks, wdialog, wmessages, fetchFailed, ndone>>

\* handle_messages: done(), i.e. q.task_done(); then the loop starts over.
WorkerDone(w) ==
    /\ wpc[w] = "done"
    /\ unfinished_tasks' = unfinished_tasks - 1
    /\ ndone' = ndone + 1
    /\ wdialog' = [wdialog EXCEPT ![w] = 0]
    /\ wmessages' = [wmessages EXCEPT ![w] = <<>>]
    /\ wpc' = [wpc EXCEPT ![w] = "get"]
    /\ UNCHANGED notDump
    /\ UNCHANGED <<dialogs, thread_count, export_formats, mainpc, started, nput,
                   queue, files, writes, fetchFailed, saveFailed, nsaves>>

DumpNext ==
    \/ Begin
    \/ StartThread
    \/ Put
    \/ Join
    \/ \E w \in Workers : WorkerGet(w)
    \/ \E w \in Workers : WorkerHistory(w)
    \/ \E w \in Workers : WorkerSave(w)
    \/ \E w \in Workers : WorkerDone(w)

\* The dialogs phase not run.
DumpIdle ==
    /\ dialogs = <<>>
    /\ thread_count = 1
    /\ export_formats = {"json"}
    /\ mainpc = "off"
    /\ started = 0
    /\ nput = 0
    /\ queue = <<>>
    /\ unfinished_tasks = 0
    /\ wpc = [w \in Workers |-> "unstarted"]
    /\ wdialog = [w \in Workers |-> 0]
    /\ wmessages = [w \in Workers |-> <<>>]
    /\ files = <<>>
    /\ writes = {}
    /\ fetchFailed = {}
    /\ saveFailed = {}
    /\ nsaves = [i \in 1..Len(dialogs) |-> 0]
    /\ ndone = 0

\* ------------------------------------------------------ get_community_posts
POSTS_PER_REQUEST == 100

MaxCount == 3
MaxShort == 2
MaxFailId == 2

\* The group id behind a numeric community_id.
GroupId == 12345

\* The count arguments tried: a negative one, the small ones, one page, and two
\* pages and a half.
CountInputs == ((-1)..MaxCount) \cup {POSTS_PER_REQUEST, 2 * POSTS_PER_REQUEST + 50}

\* The lengths of the page wall.get may answer a request of req items with: a
\* short page, a full page, or a page of one item more than asked for.
PageLengths(req) == {n \in 0..(req + 1) : n <= MaxShort \/ n >= req - 1}

\* Where a domain call's answer carries an owner id: on its first item only, on
\* its first item and in its "groups" side-list, in the side-list only, or
\* nowhere.
OwnerSources == {"item", "both", "groups", "none"}

\* items[0].get('owner_id') of an answer (0: None).
ItemOwner(src) == IF src \in {"item", "both"} THEN -GroupId ELSE 0

\* groups[0]['id'] of an answer (0: no "groups"); with extended=1 the side-list
\* holds every group the posts mention, the first need not be the wall's owner.
GroupsFirstId(src) == IF src \in {"both", "groups"} THEN GroupId + 1 ELSE 0

\* The remote's wall: the item at position p (from 1) has id p.
RawPost(p, src) == [id |-> p, owner_id |-> ItemOwner(src)]

\* wall.getComments of post p, when it answers.
RemoteComments(p) == [i \in 1..(p % 3) |-> [id |-> i]]

\* likes.getList of post p, when it answers.
RemoteLikes(p) == [count |-> p, users |-> [i \in 1..(p % 2) |-> i]]

\* Mutant of _generate_post_link: the two ids in the other order.
_generate_post_link_swapped(owner, post_id) ==
    <<"https://vk.com/wall", post_id, "_", owner>>

\* PostsManager._generate_post_link
_generate_post_link(owner, post_id) == <<"https://vk.com/wall", owner, "_", post_id>>

\* PostsManager._get_post_comments: [] when the call raises.
_get_post_comments(owner, post_id) ==
    IF post_id = commentsFailId
      THEN <<>>
      ELSE [i \in 1..Len(RemoteComments(post_id)) |->
              [id |-> RemoteComments(post_id)[i].id,
               vk_link |-> <<"https://vk.com/wall", owner, "_", post_id,
                             "?reply=", RemoteComments(post_id)[i].id>>]]

\* PostsManager._get_post_likes: the zero summary when the call raises.
_get_post_likes(owner, post_id) ==
    IF post_id = likesFailId
      THEN [count |-> 0, user_likes |-> 0, can_like |-> 1, can_publish |-> 1,
            users |-> <<>>]
      ELSE [count |-> RemoteLikes(post_id).count, user_likes |-> 0, can_like |-> 1,
            can_publish |-> 1, users |-> RemoteLikes(post_id).users]

\* PostsManager._format_post, then the comments and likes of the loop body. The
\* fields left as the raw post gave them are [raw |-> TRUE].
FormattedPost(post, owner) ==
    [id       |-> post.id,
     owner_id |-> owner,
     vk_link  |-> _generate_post_link(owner, post.id),
     comments |-> IF include_comments
                    THEN [raw |-> FALSE, list |-> _get_post_comments(owner, post.id)]
                    ELSE [raw |-> TRUE, list |-> <<>>],
     likes    |-> IF include_reactions
                    THEN [raw |-> FALSE, summary |-> _get_post_likes(owner, post.id)]
                    ELSE [raw |-> TRUE, summary |-> <<>>]]

\* Mutant of ProcessPage: a post whose comments or likes call raised is left out.
ProcessPageDropFailed(current_posts, owner) ==
    LET kept(post) == /\ ~(include_comments /\ post.id = commentsFailId)
                      /\ ~(include_reactions /\ post.id = likesFailId)
        formatted == [j \in 1..Len(current_posts) |->
                        FormattedPost(current_posts[j], owner)]
    IN  SelectSeq(formatted, kept)

\* The loop body's "for post in current_posts": the posts it appends.
ProcessPage(current_posts, owner) ==
    [j \in 1..Len(current_posts) |-> FormattedPost(current_posts[j], owner)]

\* Mutant of ResolvedOwner: the "groups" side-list is looked at first.
ResolvedOwnerGroupsFirst(src) ==
    IF GroupsFirstId(src) # 0
      THEN -GroupsFirstId(src)
      ELSE ItemOwner(src)

\* The owner id a domain call resolves on a page with items (0: None): the first
\* item's owner_id, else minus the id of the first of "groups".
ResolvedOwner(src) ==
    IF ItemOwner(src) # 0
      THEN ItemOwner(src)
      ELSE IF GroupsFirstId(src) # 0
        THEN -GroupsFirstId(src)
        ELSE 0

PostsInit ==
    /\ community_numeric \in BOOLEAN
    /\ count \in CountInputs
    /\ include_comments \in BOOLEAN
    /\ include_reactions \in BOOLEAN
    /\ commentsFailId \in 0..MaxFailId
    /\ likesFailId \in 0..MaxFailId
    /\ postpc = "loop"
    /\ all_posts = <<>>
    /\ offset = 0
    /\ owner_id = 0
    /\ calls = <<>>
    /\ pages = <<>>
    /\ errorAt = 0
    /\ resolvedFrom = ""
    /\ result = <<>>

\* The posts phase not run.
PostsIdle ==
    /\ community_numeric = TRUE
    /\ count = 0
    /\ include_comments = FALSE
    /\ include_reactions = FALSE
    /\ commentsFailId = 0
    /\ likesFailId = 0
    /\ postpc = "off"
    /\ all_posts = <<>>
    /\ offset = 0
    /\ owner_id = 0
    /\ calls = <<>>
    /\ pages = <<>>
    /\ errorAt = 0
    /\ resolvedFrom = ""
    /\ result = <<>>

\* Mutant of posts_to_request: always a whole page.
posts_to_request_whole_page == POSTS_PER_REQUEST

posts_to_request == Min(POSTS_PER_REQUEST, count - Len(all_posts))

\* Mutant of loop_continues: while True.
loop_continues_always == TRUE

\* while len(all_posts) < count
loop_continues == Len(all_posts) < count

\* while len(all_posts) < count fails: return all_posts.
PostsReturn ==
    /\ postpc = "loop"
    /\ ~loop_continues
    /\ postpc' = "returned"
    /\ result' = all_posts
    /\ UNCHANGED notPosts
    /\ UNCHANGED <<community_numeric, count, include_comments, include_reactions,
                   commentsFailId, likesFailId, all_posts, offset, owner_id, calls,
                   pages, errorAt, resolvedFrom>>

\* Mutant of WallGetError: the except branch returns what was accumulated.
WallGetErrorPartial ==
    /\ postpc = "loop"
    /\ loop_continues
    /\ calls' = Append(calls, [count |-> posts_to_request, offset |-> offset,
                               by |-> IF community_numeric THEN "owner_id" ELSE "domain"])
    /\ errorAt' = Len(calls) + 1
    /\ owner_id' = IF community_numeric THEN -GroupId ELSE owner_id
    /\ postpc' = "returned"
    /\ result' = all_posts
    /\ UNCHANGED notPosts
    /\ UNCHANGED <<community_numeric, count, include_comments, include_reactions,
                   commentsFailId, likesFailId, all_posts, offset, pages, resolvedFrom>>

\* One iteration whose wall.get call raises: the except branch returns [].
WallGetError ==
    /\ postpc = "loop"
    /\ loop_continues
    /\ calls' = Append(calls, [count |-> posts_to_request, offset |-> offset,
                               by |-> IF community_numeric THEN "owner_id" ELSE "domain"])
    /\ errorAt' = Len(calls) + 1
    /\ owner_id' = IF community_numeric THEN -GroupId ELSE owner_id
    /\ postpc' = "returned"
    /\ result' = <<>>
    /\ UNCHANGED notPosts
    /\ UNCHANGED <<community_numeric, count, include_comments, include_reactions,
                   commentsFailId, likesFailId, all_posts, offset, pages, resolvedFrom>>

\* Mutant of next_offset: the offset is set to the length of the page.
next_offset_assigned(off, n) == n

\* offset += len(current_posts)
next_offset(off, n) == off + n

\* One iteration whose wall.get call answers n items: the owner id resolution,
\* the processing of the page, and the break or the advance of offset.
WallGetPage ==
    /\ postpc = "loop"
    /\ loop_continues
    /\ \E n \in PageLengths(posts_to_request), src \in OwnerSources :
          LET owner == IF community_numeric THEN -GroupId
                       ELSE IF owner_id # 0 THEN owner_id
                       ELSE IF n = 0 THEN 0
                       ELSE ResolvedOwner(src)
              raised == ~community_numeric /\ owner_id = 0 /\ owner = 0
              current_posts == [j \in 1..n |-> RawPost(offset + j, src)]
              accumulated == all_posts \o ProcessPage(current_posts, owner)
          IN
          /\ calls' = Append(calls, [count |-> posts_to_request, offset |-> offset,
                               by |-> IF community_numeric THEN "owner_id" ELSE "domain"])
          /\ pages' = Append(pages, n)
          /\ owner_id' = owner
          /\ resolvedFrom' = IF ~community_numeric /\ owner_id = 0 /\ n > 0
                               THEN src ELSE resolvedFrom
          /\ IF raised
               THEN /\ postpc' = "returned"
                    /\ result' = <<>>
                    /\ UNCHANGED <<all_posts, offset>>
               ELSE IF n = 0
               THEN /\ postpc' = "returned"
                    /\ result' = all_posts
                    /\ UNCHANGED <<all_posts, offset>>
               ELSE IF n < posts_to_request
               THEN /\ all_posts' = accumulated
                    /\ postpc' = "returned"
                    /\ result' = accumulated
                    /\ UNCHANGED offset
               ELSE /\ all_posts' = accumulated
                    /\ offset' = next_offset(offset, n)
                    /\ UNCHANGED <<postpc, result>>
    /\ UNCHANGED notPosts
    /\ UNCHANGED <<community_numeric, count, include_comments, include_reactions,
                   commentsFailId, likesFailId, errorAt>>

PostsNext ==
    \/ PostsReturn
    \/ WallGetError
    \/ WallGetPage

\* ------------------------------------------------------------ image cache
MaxResolves == 2

EmptyUrl == [scheme |-> "", stem |-> "", suffix |-> "", query |-> ""]

UrlInputs ==
    {EmptyUrl,
     [scheme |-> "ftp",   stem |-> "/a", suffix |-> ".png",  query |-> ""],
     [scheme |-> "https", stem |-> "/a", suffix |-> ".jpg",  query |-> ""],
     [scheme |-> "https", stem |-> "/a", suffix |-> ".PNG",  query |-> ""],
     [scheme |-> "https", stem |-> "/a", suffix |-> "",      query |-> ""],
     [scheme |-> "http",  stem |-> "/b", suffix |-> ".gif",  query |-> "size=1"],
     [scheme |-> "https", stem |-> "/a", suffix |-> ".txt",  query |-> ""],
     [scheme |-> "https", stem |-> "/c", suffix |-> ".webp", query |-> "x"]}

\* str.lower() on the suffixes of the inputs.
Lower(suffix) == IF suffix = ".PNG" THEN ".png" ELSE suffix

ImageSuffixes == {".jpg", ".jpeg", ".png", ".gif", ".webp", ".bmp"}

\* hashlib.md5(url).hexdigest(): free of collisions on the inputs.
url_hash(url) == <<"md5", url>>

\* download_image: the cache file name of a url.
CacheFileName(url) ==
    [hash |-> url_hash(url),
     ext  |-> IF Lower(url.suffix) \in ImageSuffixes THEN Lower(url.suffix) ELSE ".jpg"]

\* How a download attempt can go: makedirs raises; requests.get raises (network
\* error, timeout); raise_for_status raises; the content type is no image; open
\* raises; iter_content raises after the file was opened; or all goes well.
FetchOutcomes == {"ok", "mkdir_error", "network_error", "timeout", "http_error",
                  "non_image", "open_error", "stream_error"}

None == <<>>

\* Mutant of download_image: no look at the cache directory before the request.
download_image_always_fetch(url, dir, o) ==
    LET filename == [hash |-> url_hash(url),
                     ext  |-> IF Lower(url.suffix) \in ImageSuffixes
                                THEN Lower(url.suffix) ELSE ".jpg"] IN
    IF url = EmptyUrl \/ url.scheme \notin {"http", "https"}
      THEN [ret |-> None, cache |-> dir, fetched |-> FALSE]
    ELSE IF o = "mkdir_error" /\ dir = <<>>
      THEN [ret |-> None, cache |-> dir, fetched |-> FALSE]
    ELSE IF o \in {"network_error", "timeout", "http_error", "non_image", "open_error"}
      THEN [ret |-> None, cache |-> dir, fetched |-> TRUE]
      ELSE [ret |-> IF o = "ok" THEN <<filename>> ELSE None,
            cache |-> [f \in DOMAIN dir \cup {filename} |->
                         IF f = filename
                           THEN (IF o = "ok" THEN "complete" ELSE "partial")
                           ELSE dir[f]],
            fetched |-> TRUE]

\* Mutant of download_image: the content type of the response is not checked.
download_image_any_content(url, dir, o) ==
    LET filename == [hash |-> url_hash(url),
                     ext  |-> IF Lower(url.suffix) \in ImageSuffixes
                                THEN Lower(url.suffix) ELSE ".jpg"] IN
    IF url = EmptyUrl \/ url.scheme \notin {"http", "https"}
      THEN [ret |-> None, cache |-> dir, fetched |-> FALSE]
    ELSE IF o = "mkdir_error" /\ dir = <<>>
      THEN [ret |-> None, cache |-> dir, fetched |-> FALSE]
    ELSE IF filename \in DOMAIN dir
      THEN [ret |-> <<filename>>, cache |-> dir, fetched |-> FALSE]
    ELSE IF o \in {"network_error", "timeout", "http_error", "open_error"}
      THEN [ret |-> None, cache |-> dir, fetched |-> TRUE]
      ELSE [ret |-> IF o = "stream_error" THEN None ELSE <<filename>>,
            cache |-> [f \in DOMAIN dir \cup {filename} |->
                         IF f = filename
                           THEN (IF o = "stream_error" THEN "partial" ELSE "complete")
                           ELSE dir[f]],
            fetched |-> TRUE]

\* download_image: [ret: <<file name>> or None, cache: the directory after the
\* call, fetched: whether requests.get was called]. os.makedirs(exist_ok=True)
\* can raise only while the directory holds no file: a directory that holds one
\* exists.
download_image(url, dir, o) ==
    LET filename == CacheFileName(url) IN
    IF url = EmptyUrl \/ url.scheme \notin {"http", "https"}
      THEN [ret |-> None, cache |-> dir, fetched |-> FALSE]
    ELSE IF o = "mkdir_error" /\ dir = <<>>
      THEN [ret |-> None, cache |-> dir, fetched |-> FALSE]
    ELSE IF filename \in DOMAIN dir
      THEN [ret |-> <<filename>>, cache |-> dir, fetched |-> FALSE]
    ELSE IF o \in {"network_error", "timeout", "http_error", "non_image", "open_error"}
      THEN [ret |-> None, cache |-> dir, fetched |-> TRUE]
    ELSE IF o = "stream_error"
      THEN [ret |-> None,
            cache |-> [f \in DOMAIN dir \cup {filename} |->
                         IF f = filename THEN "partial" ELSE dir[f]],
            fetched |-> TRUE]
      ELSE [ret |-> <<filename>>,
            cache |-> [f \in DOMAIN dir \cup {filename} |->
                         IF f = filename THEN "complete" ELSE dir[f]],
            fetched |-> TRUE]

CacheFolderName == "posts_files"

\* get_cached_image_path: the pair it returns, given what download_image did.
get_cached_image_path(original_url, d) ==
    IF original_url = EmptyUrl
      THEN <<EmptyUrl, EmptyUrl>>
    ELSE IF d.ret # None
      THEN <<[folder |-> CacheFolderName, file |-> d.ret[1]], original_url>>
      ELSE <<original_url, original_url>>

ImageInit ==
    /\ imgpc = "run"
    /\ img_url \in UrlInputs
    /\ cache = <<>>
    /\ fetches = 0
    /\ resolves = <<>>

ImageIdle ==
    /\ imgpc = "off"
    /\ img_url = EmptyUrl
    /\ cache = <<>>
    /\ fetches = 0
    /\ resolves = <<>>

\* One call get_cached_image_path(img_url, cache_dir).
Resolve ==
    /\ imgpc = "run"
    /\ Len(resolves) < MaxResolves
    /\ \E o \in FetchOutcomes :
          LET d == IF img_url = EmptyUrl
                     THEN [ret |-> None, cache |-> cache, fetched |-> FALSE]
                     ELSE download_image(img_url, cache, o)
          IN
          /\ cache' = d.cache
          /\ fetches' = fetches + (IF d.fetched THEN 1 ELSE 0)
          /\ resolves' = Append(resolves,
                [fetched |-> d.fetched,
                 outcome |-> IF d.fetched THEN o ELSE "none",
                 result  |-> get_cached_image_path(img_url, d)])
    /\ UNCHANGED <<imgpc, img_url>>
    /\ UNCHANGED notImage

ImageNext == Resolve

\* ------------------------------------------------------------ message link
MaxPeer == 3
MaxMsgId == 5

PeerInputs ==
    (-MaxPeer..MaxPeer) \cup (CHAT_OFFSET - 1 .. CHAT_OFFSET + MaxPeer)

LinkInit ==
    /\ linkpc = "call"
    /\ link_peer \in PeerInputs
    /\ link_msg \in 1..MaxMsgId
    /\ link_out = <<>>

LinkIdle ==
    /\ linkpc = "off"
    /\ link_peer = 0
    /\ link_msg = 0
    /\ link_out = <<>>

\* One call _generate_message_link(link_peer, link_msg).
GenerateLink ==
    /\ linkpc = "call"
    /\ link_out' = _generate_message_link(link_peer, link_msg)
    /\ linkpc' = "done"
    /\ UNCHANGED <<link_peer, link_msg>>
    /\ UNCHANGED notLink

LinkNext == GenerateLink

\* --------------------------------------------------- PostsManager._clean_filename
MaxPad == 2

\* invalid_chars = '<>:"/\\|?*', in the order the loop visits them.
invalid_chars_seq == <<"<", ">", ":", "\"", "/", "\\", "|", "?", "*">>

\* str.replace(char, by) on a string of characters.
Replace(s, char, by) == [i \in 1..Len(s) |-> IF s[i] = char THEN by ELSE s[i]]

\* for char in invalid_chars: filename = filename.replace(char, "_")
RECURSIVE ReplaceEach(_, _)
ReplaceEach(filename, chars) ==
    IF chars = <<>>
      THEN filename
      ELSE ReplaceEach(Replace(filename, Head(chars), "_"), Tail(chars))

\* PostsManager._clean_filename
PostsManager_clean_filename(filename) ==
    LET replaced == ReplaceEach(filename, invalid_chars_seq)
    IN  SubSeq(replaced, 1, Min(FILENAME_LIMIT, Len(replaced)))

\* The characters of the names tried: the invalid ones and some valid ones.
NameChars == invalid_chars \cup {"a", "_", " ", "."}

\* The names tried: a run of one character, short or about 100 long, then up
\* to two more characters.
PadLengths == (0..MaxPad) \cup ((FILENAME_LIMIT - 2)..(FILENAME_LIMIT + 1))

NameInputs ==
    {[i \in 1..n |-> c] \o t :
        c \in {"a", "/"}, n \in PadLengths,
        t \in {<<>>} \cup {<<x>> : x \in NameChars}
                     \cup {<<x, y>> : x \in NameChars, y \in NameChars}}

CleanInit ==
    /\ cleanpc = "call"
    /\ clean_in \in NameInputs
    /\ clean_out = <<>>

CleanIdle ==
    /\ cleanpc = "off"
    /\ clean_in = <<>>
    /\ clean_out = <<>>

\* One call of each _clean_filename method on clean_in.
CleanFilename ==
    /\ cleanpc = "call"
    /\ clean_out' = [dialogs |-> _clean_filename(clean_in),
                     posts   |-> PostsManager_clean_filename(clean_in)]
    /\ cleanpc' = "done"
    /\ UNCHANGED clean_in
    /\ UNCHANGED notClean

CleanNext == CleanFilename

\* ------------------------------------------------------------ parse_vk_links
MaxSegs == 2

\* The literal the pattern starts with: \[#alias\|
LINK_PREFIX == <<"[", "#", "a", "l", "i", "a", "s", "|">>

\* Concatenation of a sequence of strings.
RECURSIVE Concat(_)
Concat(ss) == IF ss = <<>> THEN <<>> ELSE Head(ss) \o Concat(Tail(ss))

\* The least index x >= from with s[x] in set (0: none).
FirstIndex(s, from, set) ==
    LET found == {x \in from..Len(s) : s[x] \in set}
    IN  IF found = {} THEN 0 ELSE CHOOSE x \in found : \A y \in found : x <= y

\* Mutant of StartsLink: only the brackets of the opening are looked at, the
\* sentinel between them is not compared.
StartsLinkAnySentinel(s, i) ==
    /\ i + Len(LINK_PREFIX) - 1 <= Len(s)
    /\ s[i] = "["
    /\ s[i + Len(LINK_PREFIX) - 1] = "|"

\* Whether the literal \[#alias\| matches at position i of s.
StartsLink(s, i) ==
    /\ i + Len(LINK_PREFIX) - 1 <= Len(s)
    /\ SubSeq(s, i, i + Len(LINK_PREFIX) - 1) = LINK_PREFIX

\* re.match of the pattern at position i: the greedy group ([^|\]]+) runs to the
\* first "|" or "]" and must be followed by "|"; the greedy group ([^\]]+) runs
\* to the first "]". end is the position of the closing "]" (0: no match).
MatchAt(s, i) ==
    LET g1 == i + Len(LINK_PREFIX)
        j  == FirstIndex(s, g1, {"|", "]"})
        k  == IF j = 0 THEN 0 ELSE FirstIndex(s, j + 1, {"]"})
    IN  IF StartsLink(s, i) /\ j > g1 /\ s[j] = "|" /\ k > j + 1
          THEN [end |-> k, link_text |-> SubSeq(s, g1, j - 1),
                url |-> SubSeq(s, j + 1, k - 1)]
          ELSE [end |-> 0, link_text |-> <<>>, url |-> <<>>]

\* str.replace(char, by) where by is a string.
RECURSIVE ReplaceChar(_, _, _)
ReplaceChar(s, char, by) ==
    IF s = <<>>
      THEN <<>>
      ELSE (IF Head(s) = char THEN by ELSE <<Head(s)>>) \o ReplaceChar(Tail(s), char, by)

\* Mutant of html_escape: the text is used as it is.
html_escape_none(s) == s

\* html.escape(s), quote=True: & first, then < > " '.
html_escape(s) ==
    LET s1 == ReplaceChar(s, "&", <<"&", "a", "m", "p", ";">>)
        s2 == ReplaceChar(s1, "<", <<"&", "l", "t", ";">>)
        s3 == ReplaceChar(s2, ">", <<"&", "g", "t", ";">>)
        s4 == ReplaceChar(s3, "\"", <<"&", "q", "u", "o", "t", ";">>)
    IN  ReplaceChar(s4, "'", <<"&", "#", "x", "2", "7", ";">>)

\* replace_link: f'<a href="{url}" target="_blank">{escaped_text}</a>'
replace_link(match) ==
    <<"<", "a", " ", "h", "r", "e", "f", "=", "\"">> \o match.url
      \o <<"\"", " ", "t", "a", "r", "g", "e", "t", "=", "\"", "_", "b", "l", "a", "n", "k", "\"", ">">>
      \o html_escape(match.link_text) \o <<"<", "/", "a", ">">>

\* re.sub(pattern, replace_link, s) from position i on: the matches are taken
\* leftmost first and do not overlap.
RECURSIVE re_sub(_, _)
re_sub(s, i) ==
    IF i > Len(s)
      THEN <<>>
      ELSE LET match == MatchAt(s, i) IN
           IF match.end # 0
             THEN replace_link(match) \o re_sub(s, match.end + 1)
             ELSE <<s[i]>> \o re_sub(s, i + 1)

\* parse_vk_links: None and "" go back as they came.
parse_vk_links(text) ==
    IF text.isNone \/ text.chars = <<>>
      THEN text
      ELSE [isNone |-> FALSE, chars |-> re_sub(text.chars, 1)]

\* The display texts and the urls of the links tried.
DisplayInputs == {<<"x">>, <<"<", "s", ">", "\"">>, <<"&", "'">>, <<"[", "#", "a", "l", "i", "a", "s">>}

UrlTextInputs == {<<"u">>, <<"u", "|", "v">>, <<"\"", "[">>}

\* '[#alias|display|url]'
LinkMarkup(display, url) == LINK_PREFIX \o display \o <<"|">> \o url \o <<"]">>

\* The pieces a text is made of: a link; a piece with no link in it and nothing
\* that could open one (plain text, a wrong sentinel, an empty display text, a
\* missing opening bracket); a link whose closing bracket is missing.
SegInputs ==
    {[kind |-> "link", display |-> d, url |-> u, text |-> LinkMarkup(d, u)] :
        d \in DisplayInputs, u \in UrlTextInputs}
    \cup {[kind |-> "plain", display |-> <<>>, url |-> <<>>, text |-> t] :
            t \in {<<"t">>, <<" ", "<", "b", ">", " ">>, <<"[", "#", "w", "r", "o", "n", "g", "|", "x", "|", "u", "]">>,
                   <<"[", "#", "a", "l", "i", "a", "s", "|", "|", "u", "]">>, <<"#", "a", "l", "i", "a", "s", "|", "x", "|", "u", "]">>}}
    \cup {[kind |-> "open", display |-> <<>>, url |-> <<>>, text |-> t] :
            t \in {<<"[", "#", "a", "l", "i", "a", "s", "|", "x", "|", "u">>}}

MarkupInit ==
    /\ markuppc = "call"
    /\ \E n \in 0..MaxSegs : markup_segs \in [1..n -> SegInputs]
    /\ markup_in \in {[isNone |-> TRUE, chars |-> <<>>],
                      [isNone |-> FALSE,
                       chars |-> Concat([k \in 1..Len(markup_segs) |-> markup_segs[k].text])]}
    /\ markup_in.isNone => markup_segs = <<>>
    /\ markup_out = <<>>

MarkupIdle ==
    /\ markuppc = "off"
    /\ markup_segs = <<>>
    /\ markup_in = <<>>
    /\ markup_out = <<>>

\* One call parse_vk_links(markup_in).
ParseVkLinks ==
    /\ markuppc = "call"
    /\ markup_out' = parse_vk_links(markup_in)
    /\ markuppc' = "done"
    /\ UNCHANGED <<markup_segs, markup_in>>
    /\ UNCHANGED notMarkup

MarkupNext == ParseVkLinks

\* ----------------------- _format_forwarded_messages / _format_copy_history
MaxDepth == 3
MaxNesting == 51

\* DialogsManager._format_forwarded_messages: [raised, list]. The entries of the
\* dict are evaluated in order: 'date_formatted' evaluates datetime, which
\* dialogs.py does not import, before 'fwd_messages' makes the recursive call.
RECURSIVE _format_forwarded_messages(_)
_format_forwarded_messages(fwd_messages) ==
    IF fwd_messages = <<>>
      THEN [raised |-> FALSE, list |-> <<>>]
    ELSE IF ~DatetimeImported
      THEN [raised |-> TRUE, list |-> <<>>]
      ELSE LET nested == [k \in 1..Len(fwd_messages) |->
                            _format_forwarded_messages(fwd_messages[k].fwd_messages)]
           IN  IF \E k \in 1..Len(fwd_messages) : nested[k].raised
                 THEN [raised |-> TRUE, list |-> <<>>]
                 ELSE [raised |-> FALSE,
                       list |-> [k \in 1..Len(fwd_messages) |->
                          [message_id   |-> fwd_messages[k].id,
                           from_id      |-> fwd_messages[k].from_id,
                           fwd_messages |-> nested[k].list,
                           vk_link      |-> IF fwd_messages[k].from_id # 0
                                              THEN _generate_message_link(
                                                     fwd_messages[k].from_id,
                                                     fwd_messages[k].id)
                                              ELSE None]]]

\* PostsManager._format_copy_history: one formatted item per item of the list;
\* an item's own copy_history is not read.
_format_copy_history(copy_history) ==
    [k \in 1..Len(copy_history) |->
        [id       |-> copy_history[k].id,
         owner_id |-> copy_history[k].owner_id,
         from_id  |-> copy_history[k].owner_id,
         vk_link  |-> _generate_post_link(copy_history[k].owner_id, copy_history[k].id)]]

\* The nestings tried, as lists of [id, from, nested]: nothing; one item; one
\* item and a second without nested items; d levels deep at most.
RECURSIVE Nestings(_)
Nestings(d) ==
    IF d = 0
      THEN {<<>>}
      ELSE LET deeper == Nestings(d - 1) IN
           {<<>>}
           \cup {<<[id |-> d, from |-> f, nested |-> n]>> : f \in {0, 5}, n \in deeper}
           \cup {<<[id |-> d, from |-> f, nested |-> n],
                   [id |-> d + 10, from |-> 5, nested |-> <<>>]>> :
                      f \in {0, 5}, n \in deeper}

\* One item inside the other, d levels deep.
RECURSIVE Chain(_)
Chain(d) ==
    IF d = 0 THEN <<>> ELSE <<[id |-> d, from |-> 5, nested |-> Chain(d - 1)]>>

\* A nesting as the fwd_messages of a raw message.
RECURSIVE FwdOf(_)
FwdOf(n) ==
    [k \in 1..Len(n) |->
        [id |-> n[k].id, from_id |-> n[k].from, fwd_messages |-> FwdOf(n[k].nested)]]

\* A nesting as the copy_history of a raw post.
RECURSIVE CopyOf(_)
CopyOf(n) ==
    [k \in 1..Len(n) |->
        [id |-> n[k].id, owner_id |-> -n[k].from - 1,
         copy_history |-> CopyOf(n[k].nested)]]

NormInit ==
    /\ normpc = "call"
    /\ \E n \in Nestings(MaxDepth) \cup {Chain(MaxNesting)} :
          /\ raw_fwd = FwdOf(n)
          /\ raw_copy = CopyOf(n)
    /\ out_fwd = <<>>
    /\ out_copy = <<>>

NormIdle ==
    /\ normpc = "off"
    /\ raw_fwd = <<>>
    /\ raw_copy = <<>>
    /\ out_fwd = <<>>
    /\ out_copy = <<>>

\* The calls _format_forwarded_messages(raw_fwd) of format_message and
\* _format_copy_history(raw_copy) of _format_post.
Normalize ==
    /\ normpc = "call"
    /\ out_fwd' = _format_forwarded_messages(raw_fwd)
    /\ out_copy' = _format_copy_history(raw_copy)
    /\ normpc' = "done"
    /\ UNCHANGED <<raw_fwd, raw_copy>>
    /\ UNCHANGED notNorm

NormNext == Normalize

\* ---------------------------------------------------------- json_to_html.main
MaxConvPosts == 2

\* What the "posts" field can hold: nothing (absent), a number, or a list of
\* posts, each with a photo attachment (TRUE) or without.
PostsFields ==
    {[kind |-> "absent", items |-> <<>>], [kind |-> "number", items |-> <<>>]}
    \cup UNION {{[kind |-> "list", items |-> q] : q \in [1..n -> BOOLEAN]}
                : n \in 0..MaxConvPosts}

\* What can be at json_file_path: nothing, a directory, a file that is no JSON,
\* a JSON value that is no object, or an object with or without its fields.
ConvInputs ==
    {[kind |-> k, community |-> "absent", posts |-> [kind |-> "absent", items |-> <<>>],
      posts_count |-> FALSE] :
        k \in {"missing", "directory", "invalid_json", "null", "number", "string", "list"}}
    \cup {[kind |-> "object", community |-> c, posts |-> ps, posts_count |-> pc] :
            c \in {"absent", "dict", "string"}, ps \in PostsFields, pc \in BOOLEAN}

\* Mutant of ExitStatus: the script forgets sys.exit(1).
ExitStatusZero(success) == 0

\* if not success: sys.exit(1)
ExitStatus(success) == IF success THEN 0 ELSE 1

\* main returns success after printing message; the script exits.
Return(success, message) ==
    /\ convpc' = "exited"
    /\ conv_success' = success
    /\ conv_message' = message
    /\ conv_exit' = ExitStatus(success)

ConvInit ==
    /\ convpc = "exists"
    /\ conv_file \in ConvInputs
    /\ conv_message = ""
    /\ conv_success = FALSE
    /\ conv_exit = -1
    /\ conv_written = {}

ConvIdle ==
    /\ convpc = "off"
    /\ conv_file = <<>>
    /\ conv_message = ""
    /\ conv_success = FALSE
    /\ conv_exit = -1
    /\ conv_written = {}

\* if not os.path.exists(json_file_path): return False
CheckExists ==
    /\ convpc = "exists"
    /\ IF conv_file.kind = "missing"
         THEN Return(FALSE, "not_found")
         ELSE /\ convpc' = "load"
              /\ UNCHANGED <<conv_message, conv_success, conv_exit>>
    /\ UNCHANGED <<conv_file, conv_written>>
    /\ UNCHANGED notConv

\* The try block: open, json.load, and the print that calls posts_data.get and
\* len(posts_data.get('posts', [])): a value that is no object has no get, and a
\* number has no len.
Load ==
    /\ convpc = "load"
    /\ IF conv_file.kind = "invalid_json"
         THEN Return(FALSE, "json_error")
       ELSE IF \/ conv_file.kind \in {"directory", "null", "number", "string", "list"}
               \/ conv_file.posts.kind = "number"
         THEN Return(FALSE, "load_error")
         ELSE /\ convpc' = "validate"
              /\ UNCHANGED <<conv_message, conv_success, conv_exit>>
    /\ UNCHANGED <<conv_file, conv_written>>
    /\ UNCHANGED notConv

\* The two structure checks.
Validate ==
    /\ convpc = "validate"
    /\ IF conv_file.kind # "object"
         THEN Return(FALSE, "not_object")
       ELSE IF conv_file.community = "absent" \/ conv_file.posts.kind = "absent"
         THEN Return(FALSE, "missing_fields")
         ELSE /\ convpc' = "generate"
              /\ UNCHANGED <<conv_message, conv_success, conv_exit>>
    /\ UNCHANGED <<conv_file, conv_written>>
    /\ UNCHANGED notConv

\* save_posts_html inside its try block: community['name'] raises for a
\* community that is no object, before anything is written; a post with a photo
\* makes download_image create the cache directory and, if the download gets as
\* far as open(), a file in it; the HTML file is written at the end.
Generate ==
    /\ convpc = "generate"
    /\ IF conv_file.community # "dict"
         THEN /\ Return(FALSE, "html_error")
              /\ UNCHANGED conv_written
         ELSE \E o \in FetchOutcomes, htmlOk \in BOOLEAN :
                LET photos == \E k \in 1..Len(conv_file.posts.items) :
                                  conv_file.posts.items[k]
                    cached == IF ~photos \/ o = "mkdir_error" THEN {}
                              ELSE IF o \in {"ok", "stream_error"}
                                THEN {"cache_dir", "cache_file"}
                                ELSE {"cache_dir"}
                IN  /\ conv_written' = cached \cup (IF htmlOk THEN {"html"} ELSE {})
                    /\ IF htmlOk THEN Return(TRUE, "") ELSE Return(FALSE, "html_error")
    /\ UNCHANGED conv_file
    /\ UNCHANGED notConv

ConvNext ==
    \/ CheckExists
    \/ Load
    \/ Validate
    \/ Generate

\* ------------------------------------------------- get_history, one call
MaxItems == 3

\* The lists of raw messages messages.getHistory answers with: up to MaxItems
\* messages with distinct ids, in any order.
ItemLists ==
    UNION {{q \in [1..n -> 1..MaxItems] : \A i, j \in 1..n : i # j => q[i] # q[j]}
           : n \in 0..MaxItems}

HistInit ==
    /\ histpc = "call"
    /\ hist_peer \in {-2, 1, 2, CHAT_OFFSET + 1}
    /\ hist_answer \in
          {[ok |-> FALSE, items |-> <<>>]}
          \cup {[ok |-> TRUE, items |-> [i \in 1..Len(q) |-> [id |-> q[i]]]] :
                  q \in ItemLists}
    /\ hist_out = <<>>

HistIdle ==
    /\ histpc = "off"
    /\ hist_peer = 0
    /\ hist_answer = <<>>
    /\ hist_out = <<>>

\* One call get_history(hist_peer).
GetHistory ==
    /\ histpc = "call"
    /\ hist_out' = get_history(hist_peer, hist_answer)
    /\ histpc' = "done"
    /\ UNCHANGED <<hist_peer, hist_answer>>
    /\ UNCHANGED notHist

HistNext == GetHistory

\* ------------------------------------- save_posts_html: the text of a post
\* str.strip(); of the characters tried, the whitespace is " " and "\n".
strip(s) ==
    LET kept == {x \in 1..Len(s) : s[x] \notin {" ", "\n"}}
    IN  IF kept = {}
          THEN <<>>
          ELSE SubSeq(s, CHOOSE x \in kept : \A y \in kept : x <= y,
                         CHOOSE x \in kept : \A y \in kept : x >= y)

\* '<span class="no-content">[...]</span>', as one piece.
NO_CONTENT == <<"<span class=\"no-content\">[no text]</span>">>

\* Mutant of render_post_text: the links are rewritten first, the result is
\* escaped after that.
render_post_text_links_first(text) ==
    LET post_text == strip(text) IN
    IF post_text = <<>>
      THEN NO_CONTENT
      ELSE ReplaceChar(html_escape(parse_vk_links([isNone |-> FALSE, chars |-> post_text]).chars),
                       "\n", <<"<", "b", "r", ">">>)

\* post_text = post.get('text', '').strip(); the placeholder when it is empty,
\* else html.escape, then parse_vk_links, then replace('\n', '<br>').
render_post_text(text) ==
    LET post_text == strip(text) IN
    IF post_text = <<>>
      THEN NO_CONTENT
      ELSE ReplaceChar(parse_vk_links([isNone |-> FALSE, chars |-> html_escape(post_text)]).chars,
                       "\n", <<"<", "b", "r", ">">>)

\* The pieces of the post texts tried: links, with their display texts and
\* urls, and plain pieces.
RenderSegs ==
    {[kind |-> "link", display |-> d, url |-> u, text |-> LinkMarkup(d, u)] :
        d \in {<<"x">>, <<"a", "<", "b">>, <<"&">>},
        u \in {<<"u">>, <<"u", "?", "a", "&", "b">>, <<"u", "\n", "v">>}}
    \cup {[kind |-> "plain", display |-> <<>>, url |-> <<>>, text |-> t] :
            t \in {<<"t">>, <<"\n">>, <<"a", "\n", "<">>}}

RenderInit ==
    /\ renderpc = "call"
    /\ \E n \in 0..MaxSegs : render_segs \in [1..n -> RenderSegs]
    /\ render_in = Concat([k \in 1..Len(render_segs) |-> render_segs[k].text])
    /\ render_out = <<>>

RenderIdle ==
    /\ renderpc = "off"
    /\ render_segs = <<>>
    /\ render_in = <<>>
    /\ render_out = <<>>

\* The rendering of one post's text.
RenderPostText ==
    /\ renderpc = "call"
    /\ render_out' = render_post_text(render_in)
    /\ renderpc' = "done"
    /\ UNCHANGED <<render_segs, render_in>>
    /\ UNCHANGED notRender

RenderNext == RenderPostText

\* ------------------------------------------------------- main.py: main
LegacyInit ==
    /\ legacypc = "start_threads"
    /\ legacy_threads \in 0..MaxThreads
    /\ legacy_ndialogs \in 0..MaxDialogs
    /\ legacy_started = 0
    /\ legacy_nput = 0
    /\ legacy_queue = <<>>
    /\ legacy_unfinished = 0
    /\ lwpc = [w \in Workers |-> "unstarted"]
    /\ lwdialog = [w \in Workers |-> 0]
    /\ legacy_saved = {}

LegacyIdle ==
    /\ legacypc = "off"
    /\ legacy_threads = 0
    /\ legacy_ndialogs = 0
    /\ legacy_started = 0
    /\ legacy_nput = 0
    /\ legacy_queue = <<>>
    /\ legacy_unfinished = 0
    /\ lwpc = <<>>
    /\ lwdialog = <<>>
    /\ legacy_saved = {}

\* main: for _ in range(int(threads)): t = Thread(...); t.daemon = True; t.start()
LegacyStartThread ==
    /\ legacypc = "start_threads"
    /\ IF legacy_started < legacy_threads
         THEN /\ legacy_started' = legacy_started + 1
              /\ lwpc' = [lwpc EXCEPT ![legacy_started + 1] = "get"]
              /\ UNCHANGED legacypc
         ELSE /\ legacypc' = "put"
              /\ UNCHANGED <<legacy_started, lwpc>>
    /\ UNCHANGED notLegacy
    /\ UNCHANGED <<legacy_threads, legacy_ndialogs, legacy_nput, legacy_queue,
                   legacy_unfinished, lwdialog, legacy_saved>>

\* main: for dialog in getDialogs(): queue.put(dialog). After the last dialog
\* main is at its end and returns; nothing waits for the queue.
LegacyPut ==
    /\ legacypc = "put"
    /\ IF legacy_nput < legacy_ndialogs
         THEN /\ legacy_nput' = legacy_nput + 1
              /\ legacy_queue' = Append(legacy_queue, legacy_nput + 1)
              /\ legacy_unfinished' = legacy_unfinished + 1
              /\ UNCHANGED legacypc
         ELSE /\ legacypc' = "returned"
              /\ UNCHANGED <<legacy_nput, legacy_queue, legacy_unfinished>>
    /\ UNCHANGED notLegacy
    /\ UNCHANGED <<legacy_threads, legacy_ndialogs, legacy_started, lwpc, lwdialog,
                   legacy_saved>>

\* main has returned: the script is at its end, the interpreter exits and the
\* daemon threads end with it, wherever they are.
LegacyExit ==
    /\ legacypc = "returned"
    /\ legacypc' = "exited"
    /\ UNCHANGED notLegacy
    /\ UNCHANGED <<legacy_threads, legacy_ndialogs, legacy_started, legacy_nput,
                   legacy_queue, legacy_unfinished, lwpc, lwdialog, legacy_saved>>

\* handle_messages of main.py: dialog = q.get()
LegacyGet(w) ==
    /\ legacypc # "exited"
    /\ lwpc[w] = "get"
    /\ legacy_queue # <<>>
    /\ lwdialog' = [lwdialog EXCEPT ![w] = Head(legacy_queue)]
    /\ legacy_queue' = Tail(legacy_queue)
    /\ lwpc' = [lwpc EXCEPT ![w] = "history"]
    /\ UNCHANGED notLegacy
    /\ UNCHANGED <<legacypc, legacy_threads, legacy_ndialogs, legacy_started, legacy_nput,
                   legacy_unfinished, legacy_saved>>

\* handle_messages of main.py: getHistory(dialog["peer_id"]); it catches
\* nothing, an error of the request ends the thread.
LegacyHistory(w) ==
    /\ legacypc # "exited"
    /\ lwpc[w] = "history"
    /\ \E o \in {"ok", "error"} :
          lwpc' = [lwpc EXCEPT ![w] = IF o = "ok" THEN "save" ELSE "dead"]
    /\ UNCHANGED notLegacy
    /\ UNCHANGED <<legacypc, legacy_threads, legacy_ndialogs, legacy_started, legacy_nput,
                   legacy_queue, legacy_unfinished, lwdialog, legacy_saved>>

\* handle_messages of main.py: save(messages, directory); an error of mkdir or
\* open ends the thread.
LegacySave(w) ==
    /\ legacypc # "exited"
    /\ lwpc[w] = "save"
    /\ \E o \in {"ok", "error"} :
          /\ legacy_saved' = IF o = "ok" THEN legacy_saved \cup {lwdialog[w]} ELSE legacy_saved
          /\ lwpc' = [lwpc EXCEPT ![w] = IF o = "ok" THEN "done" ELSE "dead"]
    /\ UNCHANGED notLegacy
    /\ UNCHANGED <<legacypc, legacy_threads, legacy_ndialogs, legacy_started, legacy_nput,
                   legacy_queue, legacy_unfinished, lwdialog>>

\* handle_messages of main.py: done(); then the loop starts over.
LegacyDone(w) ==
    /\ legacypc # "exited"
    /\ lwpc[w] = "done"
    /\ legacy_unfinished' = legacy_unfinished - 1
    /\ lwdialog' = [lwdialog EXCEPT ![w] = 0]
    /\ lwpc' = [lwpc EXCEPT ![w] = "get"]
    /\ UNCHANGED notLegacy
    /\ UNCHANGED <<legacypc, legacy_threads, legacy_ndialogs, legacy_started, legacy_nput,
                   legacy_queue, legacy_saved>>

LegacyNext ==
    \/ LegacyStartThread
    \/ LegacyPut
    \/ LegacyExit
    \/ \E w \in Workers :
          \/ LegacyGet(w)
          \/ LegacyHistory(w)
          \/ LegacySave(w)
          \/ LegacyDone(w)

\* ----------------------------------------------------------- specifications
\* The threads and the main thread all get to run: each step that stays possible
\* is taken.
DumpFairness ==
    /\ WF_vars(Begin)
    /\ WF_vars(StartThread)
    /\ WF_vars(Put)
    /\ WF_vars(Join)
    /\ \A w \in Workers :
          /\ WF_vars(WorkerGet(w))
          /\ WF_vars(WorkerHistory(w))
          /\ WF_vars(WorkerSave(w))
          /\ WF_vars(WorkerDone(w))

\* The pure functions not called.
FnIdle ==
    CleanIdle /\ MarkupIdle /\ NormIdle /\ ConvIdle /\ HistIdle /\ RenderIdle /\ LegacyIdle

DumpOnly == DumpInit /\ PostsIdle /\ ImageIdle /\ LinkIdle /\ FnIdle

PostsOnly == DumpIdle /\ PostsInit /\ ImageIdle /\ LinkIdle /\ FnIdle

ImageOnly == DumpIdle /\ PostsIdle /\ ImageInit /\ LinkIdle /\ FnIdle

LinkOnly == DumpIdle /\ PostsIdle /\ ImageIdle /\ LinkInit /\ FnIdle

\* The export phases and the image cache not run.
PhasesIdle == DumpIdle /\ PostsIdle /\ ImageIdle /\ LinkIdle

CleanOnly ==
    PhasesIdle /\ CleanInit /\ MarkupIdle /\ NormIdle /\ ConvIdle /\ HistIdle
      /\ RenderIdle /\ LegacyIdle

MarkupOnly ==
    PhasesIdle /\ CleanIdle /\ MarkupInit /\ NormIdle /\ ConvIdle /\ HistIdle
      /\ RenderIdle /\ LegacyIdle

NormOnly ==
    PhasesIdle /\ CleanIdle /\ MarkupIdle /\ NormInit /\ ConvIdle /\ HistIdle
      /\ RenderIdle /\ LegacyIdle

ConvOnly ==
    PhasesIdle /\ CleanIdle /\ MarkupIdle /\ NormIdle /\ ConvInit /\ HistIdle
      /\ RenderIdle /\ LegacyIdle

HistOnly ==
    PhasesIdle /\ CleanIdle /\ MarkupIdle /\ NormIdle /\ ConvIdle /\ HistInit
      /\ RenderIdle /\ LegacyIdle

RenderOnly ==
    PhasesIdle /\ CleanIdle /\ MarkupIdle /\ NormIdle /\ ConvIdle /\ HistIdle
      /\ RenderInit /\ LegacyIdle

LegacyOnly ==
    PhasesIdle /\ CleanIdle /\ MarkupIdle /\ NormIdle /\ ConvIdle /\ HistIdle
      /\ RenderIdle /\ LegacyInit

SpecDump == DumpOnly /\ [][DumpNext]_vars

SpecDumpFair == DumpOnly /\ [][DumpNext]_vars /\ DumpFairness

SpecPosts == PostsOnly /\ [][PostsNext]_vars

\* get_community_posts is one sequential call: its next step is taken.
SpecPostsFair == PostsOnly /\ [][PostsNext]_vars /\ WF_vars(PostsNext)

SpecImage == ImageOnly /\ [][ImageNext]_vars

SpecLink == LinkOnly /\ [][LinkNext]_vars

SpecClean == CleanOnly /\ [][CleanNext]_vars

SpecMarkup == MarkupOnly /\ [][MarkupNext]_vars

SpecNorm == NormOnly /\ [][NormNext]_vars

SpecConv == ConvOnly /\ [][ConvNext]_vars

SpecHist == HistOnly /\ [][HistNext]_vars

SpecRender == RenderOnly /\ [][RenderNext]_vars

SpecLegacy == LegacyOnly /\ [][LegacyNext]_vars

\* A run of either export phase.
Init == DumpOnly \/ PostsOnly

Next == DumpNext \/ PostsNext

Spec == Init /\ [][Next]_vars

\* ------------------------------------------------------------------ claims
\* The write of dialog i in format e is among the writes made.
Written(i, e) ==
    [path |-> PathOf(dialogs[i].title, e), peer_id |-> dialogs[i].peer_id] \in writes

RECURSIVE SumSeq(_)
SumSeq(q) == IF q = <<>> THEN 0 ELSE Head(q) + SumSeq(Tail(q))

\* C1: dump_dialogs returns True (queue.join() has returned) only when all N
\* dialogs were put, none is still queued or held by a worker, each was written by
\* save_dialog in every export format, and task_done was called exactly N times.
C1_JoinAfterAllDone ==
    mainpc = "returned_true" =>
        /\ nput = Len(dialogs)
        /\ queue = <<>>
        /\ unfinished_tasks = 0
        /\ ndone = Len(dialogs)
        /\ \A w \in Workers : wpc[w] \in {"unstarted", "get"} /\ wdialog[w] = 0
        /\ \A i \in 1..Len(dialogs) : \A e \in export_formats : Written(i, e)

\* A run of two dialogs on two workers that returned True.
C1_Witness ==
    /\ mainpc = "returned_true"
    /\ Len(dialogs) >= 2
    /\ thread_count >= 2
    /\ ndone = Len(dialogs)

\* C3: a peer_id of the chat band (>= 2000000000) gives the link with
\* sel=c{peer_id - 2000000000}, every other peer_id, positive or negative, the
\* link with sel={peer_id}.
C3_LinkForms ==
    (linkpc = "done" /\ link_peer # 0) =>
        link_out = IF link_peer >= CHAT_OFFSET
                     THEN <<"https://vk.com/im?sel=c", link_peer - CHAT_OFFSET,
                            "&msgid=", link_msg>>
                     ELSE <<"https://vk.com/im?sel=", link_peer, "&msgid=", link_msg>>

\* C4: no two writes of distinct conversations (distinct peer_id) go to the same
\* output path.
C4_DistinctPaths ==
    \A a \in writes : \A b \in writes : a.path = b.path => a.peer_id = b.peer_id

\* The posts call ended in its except branch because no owner id was found.
ResolutionFailed == ~community_numeric /\ owner_id = 0 /\ pages # <<>>

\* C5: a failed per-item fetch aborts nothing. Dialogs: only a raising
\* save_dialog ends a worker, dump_dialogs returns False only before any thread
\* was started, and at its return every dialog, those with a failed fetch too,
\* was written. Posts: unless wall.get itself failed, every item received is in
\* the list, in order, the one whose comments call raised with an empty comments
\* list and the one whose likes call raised with the zero likes summary.
C5_ItemFailureDoesNotAbort ==
    /\ \A w \in Workers : wpc[w] = "dead" => wdialog[w] \in saveFailed
    /\ mainpc = "returned_false" => started = 0
    /\ mainpc = "returned_true" =>
          \A i \in 1..Len(dialogs) : \A e \in export_formats : Written(i, e)
    /\ (postpc \in {"loop", "returned"} /\ errorAt = 0 /\ ~ResolutionFailed) =>
          /\ Len(all_posts) = SumSeq(pages)
          /\ postpc = "returned" => result = all_posts
          /\ \A k \in 1..Len(all_posts) :
                /\ all_posts[k].id = k
                /\ (include_comments /\ k = commentsFailId) =>
                      all_posts[k].comments = [raw |-> FALSE, list |-> <<>>]
                /\ (include_reactions /\ k = likesFailId) =>
                      all_posts[k].likes =
                          [raw |-> FALSE,
                           summary |-> [count |-> 0, user_likes |-> 0, can_like |-> 1,
                                        can_publish |-> 1, users |-> <<>>]]

\* Dialogs: a run that returned True although a fetch failed, with two dialogs.
C5_WitnessDialogs ==
    /\ mainpc = "returned_true"
    /\ fetchFailed # {}
    /\ Len(dialogs) >= 2

\* Posts: a returned list that holds the post whose comments call raised and the
\* post whose likes call raised, among others.
C5_WitnessPosts ==
    /\ postpc = "returned"
    /\ include_comments /\ include_reactions
    /\ commentsFailId \in 1..Len(result)
    /\ likesFailId \in 1..Len(result)
    /\ commentsFailId # likesFailId
    /\ Len(result) > 2

C5_Witness == C5_WitnessDialogs \/ C5_WitnessPosts

\* C6 as stated: a dialog whose history fetch failed is written to no file.
C6_FailedFetchWritesNothing ==
    \A i \in fetchFailed : \A wr \in writes : wr.peer_id # dialogs[i].peer_id

\* C6 as amended: a dialog whose history fetch failed goes on to save_dialog with
\* an empty messages list; what is written for it has no messages, and when
\* dump_dialogs returns True it was written in every export format.
C6_FailedFetchSavedEmpty ==
    /\ \A w \in Workers :
          (wdialog[w] \in fetchFailed) =>
              /\ wpc[w] \in {"save", "done", "dead"}
              /\ wmessages[w] = <<>>
              /\ wpc[w] = "dead" => wdialog[w] \in saveFailed
    /\ \A p \in DOMAIN files :
          (\E i \in fetchFailed : dialogs[i].peer_id = files[p].peer_id) =>
              files[p].messages = <<>>
    /\ mainpc = "returned_true" =>
          \A i \in fetchFailed : \A e \in export_formats : Written(i, e)

\* A dialog whose fetch failed was written, and dump_dialogs returned True.
C6_Witness ==
    /\ mainpc = "returned_true"
    /\ \E i \in fetchFailed : \A e \in export_formats : Written(i, e)

\* Every answered call returned as many items as it asked for.
FullPages == \A k \in 1..Len(pages) : pages[k] = calls[k].count

\* The answered calls that returned fewer items than they asked for.
ShortPages == {k \in 1..Len(pages) : pages[k] < calls[k].count}

CallSizes == [k \in 1..Len(calls) |-> calls[k].count]

\* C2 as stated: with count = 250, full pages give the three calls of sizes
\* 100, 100, 50, and a short page gives fewer than three calls.
C2_ShortPageBeforeThirdCall ==
    (postpc = "returned" /\ count = 250 /\ errorAt = 0 /\ ~ResolutionFailed) =>
        /\ FullPages => CallSizes = <<100, 100, 50>>
        /\ ShortPages # {} => Len(calls) < 3

\* C2 as amended: with count = 250, full pages give the three calls of sizes
\* 100, 100, 50; a short page is the last page asked for, the k-th of k <= 3
\* calls, and when every page before it was full the sizes asked for are the
\* first k of 100, 100, 50.
C2_CallSizes ==
    (postpc = "returned" /\ count = 250 /\ errorAt = 0 /\ ~ResolutionFailed) =>
        /\ Len(pages) = Len(calls)
        /\ FullPages => CallSizes = <<100, 100, 50>>
        /\ ShortPages # {} =>
              /\ ShortPages = {Len(calls)}
              /\ Len(calls) <= 3
              /\ (\A k \in 1..(Len(pages) - 1) : pages[k] = calls[k].count) =>
                    CallSizes = SubSeq(<<100, 100, 50>>, 1, Len(calls))

\* Three full pages for count = 250.
C2_Witness ==
    /\ postpc = "returned"
    /\ count = 250
    /\ pages = <<100, 100, 50>>
    /\ CallSizes = <<100, 100, 50>>
    /\ Len(result) = 250

\* C7: a wall.get call that raises is the last call of get_community_posts (no
\* retry, no offset asked twice), and the call returns the empty list whatever
\* the earlier pages had accumulated.
C7_ErrorDiscardsPages ==
    /\ errorAt # 0 =>
          /\ postpc = "returned"
          /\ errorAt = Len(calls)
          /\ result = <<>>
    /\ \A j \in 1..Len(calls) : \A k \in 1..Len(calls) :
          j < k => calls[j].offset < calls[k].offset

\* The third call raised after two pages had been accumulated.
C7_Witness ==
    /\ errorAt = 3
    /\ Len(all_posts) = 2 * POSTS_PER_REQUEST
    /\ result = <<>>

\* The calls whose download left a file in the cache directory.
WroteFile(r) == r.fetched /\ r.outcome \in {"ok", "stream_error"}

\* C8 as stated: after two calls with the same url at most one request was made.
C8_AtMostOneFetch == Len(resolves) = 2 => fetches <= 1

\* C8 as amended: a call makes at most one request, and none once an earlier
\* call with the same url left a file in the cache directory: two calls make at
\* most one request when the first download wrote a file, and two when the
\* first was rejected or failed before a file was written.
C8_OneFetchOnceCached ==
    /\ fetches <= Len(resolves)
    /\ fetches = Cardinality({k \in 1..Len(resolves) : resolves[k].fetched})
    /\ \A j \in 1..Len(resolves) : \A k \in 1..Len(resolves) :
          (j < k /\ WroteFile(resolves[j])) => ~resolves[k].fetched
    /\ (Len(resolves) >= 2 /\ WroteFile(resolves[1])) => fetches = 1

\* Two calls, the first of which downloaded the image: one request.
C8_Witness ==
    /\ Len(resolves) = 2
    /\ resolves[1].outcome = "ok"
    /\ ~resolves[2].fetched
    /\ fetches = 1

\* C9: as long as no download of the url completed, the cache directory holds no
\* file for it, and no call returns a reference into the cache.
C9_NoEntryWithoutCompleteImage ==
    (\A k \in 1..Len(resolves) : resolves[k].outcome # "ok") =>
        /\ CacheFileName(img_url) \notin DOMAIN cache
        /\ \A k \in 1..Len(resolves) : resolves[k].result[1] = img_url

\* C11: a call of download_image made while the cache directory holds the
\* entry of the url (md5 of the url plus the inferred extension) makes no request,
\* leaves the cache directory as it was, and returns that entry's file name.
C11_CacheHitIsReadOnly ==
    [][(imgpc = "run" /\ CacheFileName(img_url) \in DOMAIN cache) =>
          /\ fetches' = fetches
          /\ cache' = cache
          /\ Len(resolves') = Len(resolves) + 1
          /\ ~resolves'[Len(resolves')].fetched
          /\ resolves'[Len(resolves')].result =
                <<[folder |-> CacheFolderName, file |-> CacheFileName(img_url)],
                  img_url>>]_vars

\* A second call found the entry the first call had downloaded for a url whose
\* extension is inferred.
C11_Witness ==
    /\ Len(resolves) = 2
    /\ img_url.suffix = ".PNG"
    /\ resolves[1].fetched
    /\ ~resolves[2].fetched
    /\ resolves[2].result[1] = [folder |-> CacheFolderName, file |-> CacheFileName(img_url)]
    /\ DOMAIN cache = {CacheFileName(img_url)}

\* C12: for every input, what _clean_filename returns, in DialogsManager and in
\* PostsManager, holds none of the characters < > : " / \ | ? * and is at most
\* 100 characters long.
C12_CleanFilename ==
    cleanpc = "done" =>
        \A out \in {clean_out.dialogs, clean_out.posts} :
            /\ Len(out) <= 100
            /\ \A i \in 1..Len(out) :
                  out[i] \notin {"<", ">", ":", "\"", "/", "\\", "|", "?", "*"}

\* A name of more than 100 characters with invalid ones was cleaned and cut.
C12_Witness ==
    /\ cleanpc = "done"
    /\ Len(clean_in) > 100
    /\ clean_in[1] = "/"
    /\ clean_in[Len(clean_in)] = "\\"
    /\ Len(clean_out.dialogs) = 100
    /\ clean_out.posts = clean_out.dialogs

\* C13: the permalink of every post is exactly https://vk.com/wall{owner_id}_{id}
\* and the permalink of each of its comments is that followed by
\* ?reply={comment id}.
C13_Permalinks ==
    \A k \in 1..Len(all_posts) :
        LET post == all_posts[k] IN
        /\ post.vk_link = <<"https://vk.com/wall", post.owner_id, "_", post.id>>
        /\ \A c \in 1..Len(post.comments.list) :
              post.comments.list[c].vk_link =
                  post.vk_link \o <<"?reply=", post.comments.list[c].id>>

\* A returned post with two comments.
C13_Witness ==
    /\ postpc = "returned"
    /\ \E k \in 1..Len(result) :
          /\ Len(result[k].comments.list) = 2
          /\ result[k].comments.list[2].vk_link =
                <<"https://vk.com/wall", -GroupId, "_", k, "?reply=", 2>>

\* C19: for a domain community id the owner id is the first item's owner_id,
\* else minus the id of the first entry of "groups"; a first page with items
\* and neither ends the call with no post formatted or returned; the owner id
\* resolved on the first page is the one every post of every page carries.
C19_OwnerResolution ==
    (~community_numeric /\ resolvedFrom # "") =>
        /\ resolvedFrom \in {"item", "both"} => owner_id = -GroupId
        /\ resolvedFrom = "groups" => owner_id = -(GroupId + 1)
        /\ resolvedFrom = "none" =>
              /\ postpc = "returned"
              /\ Len(calls) = 1
              /\ all_posts = <<>>
              /\ result = <<>>
        /\ \A k \in 1..Len(all_posts) :
              /\ all_posts[k].owner_id = owner_id
              /\ all_posts[k].vk_link[2] = owner_id
        /\ \A k \in 1..Len(calls) : calls[k].by = "domain"

\* A domain call resolved the owner id from "groups" and went on to a second page.
C19_Witness ==
    /\ ~community_numeric
    /\ resolvedFrom = "groups"
    /\ Len(pages) >= 2
    /\ postpc = "returned"
    /\ Len(result) > POSTS_PER_REQUEST

\* The entity a character of a display text is shown as in HTML.
HtmlEntity(c) ==
    CASE c = "&"  -> <<"&", "a", "m", "p", ";">>
      [] c = "<"  -> <<"&", "l", "t", ";">>
      [] c = ">"  -> <<"&", "g", "t", ";">>
      [] c = "\"" -> <<"&", "q", "u", "o", "t", ";">>
      [] c = "'"  -> <<"&", "#", "x", "2", "7", ";">>
      [] OTHER    -> <<c>>

\* The anchor text of a display text: each character as its entity.
AnchorText(display) == Concat([k \in 1..Len(display) |-> HtmlEntity(display[k])])

\* What a piece of the text is to become.
Rewritten(seg) ==
    IF seg.kind = "link"
      THEN <<"<", "a", " ", "h", "r", "e", "f", "=", "\"">> \o seg.url
             \o <<"\"", " ", "t", "a", "r", "g", "e", "t", "=", "\"", "_", "b", "l", "a", "n", "k", "\"", ">">>
             \o AnchorText(seg.display) \o <<"<", "/", "a", ">">>
      ELSE seg.text

\* C14: in a text made of links '[#alias|DISPLAY|URL]' and of pieces without
\* links, every link (not only the first) becomes
\* '<a href="URL" target="_blank">DISPLAY-escaped</a>', the url copied as it is,
\* the display text with & < > " ' as entities, so that no < > " is left in the
\* anchor text; the other pieces stay as they are.
C14_EveryLinkRewritten ==
    (/\ markuppc = "done"
     /\ ~markup_in.isNone
     /\ \A k \in 1..Len(markup_segs) : markup_segs[k].kind \in {"link", "plain"}) =>
        /\ markup_out.chars =
              Concat([k \in 1..Len(markup_segs) |-> Rewritten(markup_segs[k])])
        /\ \A k \in 1..Len(markup_segs) :
              LET t == AnchorText(markup_segs[k].display) IN
              \A x \in 1..Len(t) : t[x] \notin {"<", ">", "\""}

\* Two links were rewritten, the second with < > " in its display text.
C14_Witness ==
    /\ markuppc = "done"
    /\ Len(markup_segs) = 2
    /\ markup_segs[1].kind = "link"
    /\ markup_segs[2].kind = "link"
    /\ markup_segs[2].display = <<"<", "s", ">", "\"">>
    /\ markup_out.chars # markup_in.chars

\* A string holds a well-formed occurrence: '[#alias|', one or more characters
\* other than | and ], '|', one or more characters other than ], ']'.
HasWellFormedLink(s) ==
    \E i \in 1..Len(s) :
        /\ i + 7 <= Len(s)
        /\ SubSeq(s, i, i + 7) = <<"[", "#", "a", "l", "i", "a", "s", "|">>
        /\ \E j \in (i + 9)..Len(s) :
              /\ s[j] = "|"
              /\ \A x \in (i + 8)..(j - 1) : s[x] \notin {"|", "]"}
              /\ \E k \in (j + 2)..Len(s) :
                    /\ s[k] = "]"
                    /\ \A x \in (j + 1)..(k - 1) : s[x] # "]"

RECURSIVE ForwardsKept(_, _)
ForwardsKept(raw, out) ==
    /\ Len(out) = Len(raw)
    /\ \A k \in 1..Len(raw) :
          /\ out[k].message_id = raw[k].id
          /\ ForwardsKept(raw[k].fwd_messages, out[k].fwd_messages)

\* Every level of a raw copy_history list is in the formatted one.
RECURSIVE RepostsKept(_, _)
RepostsKept(raw, out) ==
    /\ Len(out) = Len(raw)
    /\ \A k \in 1..Len(raw) :
          /\ out[k].id = raw[k].id
          /\ raw[k].copy_history # <<>> =>
                /\ "copy_history" \in DOMAIN out[k]
                /\ RepostsKept(raw[k].copy_history, out[k].copy_history)

\* The number of levels of a raw fwd_messages list.
RECURSIVE RawDepth(_)
RawDepth(raw) ==
    IF raw = <<>>
      THEN 0
      ELSE 1 + RawDepth(raw[1].fwd_messages)

\* C16: forwarded messages and reposts that hold nested items are normalized at
\* every nesting level: no level of the raw fwd_messages or of the raw
\* copy_history is missing from what the normalizers return.
C16_NestedLevelsKept ==
    (normpc = "done" /\ RawDepth(raw_fwd) >= 2) =>
        /\ ~out_fwd.raised
        /\ ForwardsKept(raw_fwd, out_fwd.list)
        /\ RepostsKept(raw_copy, out_copy)

\* The number of levels of a formatted fwd_messages list.
RECURSIVE FormattedDepth(_)
FormattedDepth(out) ==
    IF out = <<>>
      THEN 0
      ELSE 1 + FormattedDepth(out[1].fwd_messages)

\* C17: forwarded messages nested deeper than the recursion cap (50, say) are
\* normalized down to the cap and no further, the part below the cap alone
\* counting as an error.
C17_RecursionCapped ==
    (normpc = "done" /\ RawDepth(raw_fwd) > 50) =>
        /\ ~out_fwd.raised
        /\ FormattedDepth(out_fwd.list) = 50

\* C18 as stated: no worker has taken a job off the queue while a dialog is still
\* to be put on it.
C18_AllEnqueuedBeforeDrain ==
    Len(queue) < nput => nput = Len(dialogs)

\* C18 as amended: every worker is started before the first put; the puts never
\* wait for a worker; a worker holds only a job that was put; and dump_dialogs
\* comes to queue.join() only when every dialog was put.
C18_EnqueuedBeforeJoin ==
    /\ nput > 0 => started = thread_count
    /\ mainpc = "put" => nput < Len(dialogs)
    /\ mainpc \in {"join", "returned_true"} => nput = Len(dialogs)
    /\ \A w \in Workers : wdialog[w] # 0 => wdialog[w] <= nput
    /\ unfinished_tasks = nput - ndone

\* A worker holds the first dialog while the second is still to be put.
C18_Witness ==
    /\ mainpc = "put"
    /\ nput < Len(dialogs)
    /\ \E w \in Workers : wdialog[w] # 0 /\ wpc[w] \in {"history", "save"}

\* The input is missing, no JSON, no JSON object, or an object without its
\* 'community' or 'posts' field.
Malformed(file) ==
    \/ file.kind \in {"missing", "invalid_json", "null", "number", "string", "list"}
    \/ file.kind = "object" /\ (file.community = "absent" \/ file.posts.kind = "absent")

\* C20: for an input that is missing, not parseable as JSON, not a JSON object,
\* or without its 'community' or 'posts' field, main prints an error and returns
\* False, the script exits with a status other than 0, and nothing is ever
\* written: no HTML file, no image cache directory.
C20_MalformedInputWritesNothing ==
    Malformed(conv_file) =>
        /\ conv_written = {}
        /\ convpc # "generate"
        /\ convpc = "exited" =>
              /\ ~conv_success
              /\ conv_message # ""
              /\ conv_exit \notin {0, -1}

\* main refused an object that has 'community' but no 'posts'.
C20_Witness ==
    /\ convpc = "exited"
    /\ conv_file.kind = "object"
    /\ conv_file.community = "dict"
    /\ conv_file.posts.kind = "absent"
    /\ conv_message = "missing_fields"
    /\ conv_exit = 1

\* C21: when the history fetch answers k raw items, get_history returns k
\* messages, the i-th made from the i-th raw item.
C21_OneMessagePerItem ==
    (histpc = "done" /\ hist_answer.ok) =>
        /\ Len(hist_out) = Len(hist_answer.items)
        /\ \A i \in 1..Len(hist_out) :
              /\ ~hist_out[i].raised
              /\ hist_out[i].message_id = hist_answer.items[i].id
              /\ hist_out[i].dialog_id = hist_peer

\* The number of items the first k answered calls returned.
Received(k) == SumSeq(SubSeq(pages, 1, k))

\* C22: every call is made with fewer than count posts accumulated, asks for
\* min(100, count - len(all_posts)) items at the offset that equals the number
\* of items received so far; a page that is empty or shorter than asked for is
\* the last one; after any other page the offset has moved on by its length.
C22_ContiguousOffsets ==
    /\ \A k \in 1..Len(calls) :
          /\ Received(k - 1) < count
          /\ calls[k].count = Min(100, count - Received(k - 1))
          /\ calls[k].offset = Received(k - 1)
    /\ \A k \in 1..Len(pages) :
          (pages[k] = 0 \/ pages[k] < calls[k].count) =>
              (k = Len(calls) /\ postpc = "returned")
    /\ postpc = "loop" =>
          /\ offset = Received(Len(pages))
          /\ Len(all_posts) = offset
          /\ Len(pages) = Len(calls)

\* Three calls at the offsets 0, 100 and 200.
C22_Witness ==
    /\ Len(calls) = 3
    /\ calls[1].offset = 0
    /\ calls[2].offset = 100
    /\ calls[3].offset = 200
    /\ calls[3].count = 50

\* The workers that hold dialog i.
Holders(i) == {w \in Workers : wdialog[w] = i}

\* The places dialog i is waiting at in the queue.
Queued(i) == {k \in 1..Len(queue) : queue[k] = i}

\* C23: a worker never leaves its loop, and for every job it took off the queue
\* it calls task_done once, after save_dialog returned for that job and before
\* it takes the next job.
C23_WorkerCycle ==
    /\ \A w \in Workers : wpc[w] \in {"unstarted", "get", "history", "save", "done"}
    /\ \A w \in Workers : wpc[w] = "get" <=> (started >= w /\ wdialog[w] = 0)
    /\ \A w \in Workers : wpc[w] = "done" => nsaves[wdialog[w]] = 1
    /\ ndone = nput - Len(queue) - Cardinality({w \in Workers : wdialog[w] # 0})
    /\ \A i \in 1..nput : (Queued(i) = {} /\ Holders(i) = {}) => nsaves[i] = 1

\* C25: once the threads are being started, dump_dialogs returns.
C25_DumpReturns ==
    (mainpc = "start_threads") ~> (mainpc \in {"returned_true", "returned_false"})

\* C26: every dialog put on the queue is at one place only: waiting in the
\* queue once, or held by one worker that is still running, or saved once and
\* marked done; none was saved twice and none is lost.
C26_ExactlyOnce ==
    \A i \in 1..nput :
        /\ Cardinality(Queued(i)) + Cardinality(Holders(i)) <= 1
        /\ nsaves[i] <= 1
        /\ \A w \in Holders(i) : wpc[w] # "dead"
        /\ (Queued(i) = {} /\ Holders(i) = {}) => nsaves[i] = 1
        /\ Queued(i) # {} => nsaves[i] = 0

\* C27: get_community_posts returns whatever wall.get answers, having made at
\* most count calls of wall.get (none for a negative count), and every iteration
\* after which the loop goes on has added at least one post.
C27_LoopTerminates ==
    /\ <>(postpc = "returned")
    /\ [](Len(calls) <= (IF count < 0 THEN 0 ELSE count))
    /\ [][postpc' = "loop" => Len(all_posts') >= Len(all_posts) + 1]_vars

\* A run that made as many calls as count allows: three full pages for count = 250.
C27_Witness ==
    /\ postpc = "returned"
    /\ count = 2 * POSTS_PER_REQUEST + 50
    /\ Len(calls) = 3
    /\ Len(pages) = 3
    /\ Len(result) >= count

\* No answered call carried more items than it asked for.
NeverOverReturned == \A k \in 1..Len(pages) : pages[k] <= calls[k].count

\* C28: when no answer carried more items than asked for, the list returned has
\* at most count posts; for count <= 0 it is empty and wall.get was never called.
C28_AtMostCount ==
    (postpc = "returned" /\ NeverOverReturned) =>
        /\ count > 0 => Len(result) <= count
        /\ count <= 0 => (result = <<>> /\ calls = <<>>)

\* count posts returned after two full pages and a last page of 50.
C28_Witness ==
    /\ postpc = "returned"
    /\ NeverOverReturned
    /\ count = 2 * POSTS_PER_REQUEST + 50
    /\ Len(result) = count
    /\ pages = <<100, 100, 50>>

\* Whether sub occurs in s.
Contains(s, sub) ==
    \E i \in 1..(Len(s) - Len(sub) + 1) : SubSeq(s, i, i + Len(sub) - 1) = sub

\* '<a href="' and '" target="_blank">', the text around the url of an anchor.
AnchorOpen == <<"<", "a", " ", "h", "r", "e", "f", "=", "\"">>

AnchorMid ==
    <<"\"", " ", "t", "a", "r", "g", "e", "t", "=", "\"", "_", "b", "l", "a", "n", "k", "\"", ">">>

\* A url as the page holds it: & < > " ' as entities, once, a newline as <br>.
UrlInPage(url) ==
    Concat([k \in 1..Len(url) |->
              IF url[k] = "\n" THEN <<"<", "b", "r", ">">> ELSE HtmlEntity(url[k])])

\* C24 as stated: every link of a post text is in the page as an anchor whose
\* href is the url of the markup, character for character.
C24_UrlVerbatim ==
    renderpc = "done" =>
        \A k \in 1..Len(render_segs) :
            render_segs[k].kind = "link" =>
                Contains(render_out, AnchorOpen \o render_segs[k].url \o AnchorMid)

\* C24: the text is escaped, then its links are rewritten, then its newlines are
\* replaced; every link of a post text is in the page as an anchor whose href is
\* the url of the markup with & < > " ' as entities, escaped once and not twice
\* (and a newline as <br>); a url with none of these characters is there
\* character for character.
C24_UrlEscapedOnce ==
    renderpc = "done" =>
        \A k \in 1..Len(render_segs) :
            render_segs[k].kind = "link" =>
                /\ Contains(render_out, AnchorOpen \o UrlInPage(render_segs[k].url) \o AnchorMid)
                /\ (\A x \in 1..Len(render_segs[k].url) :
                        render_segs[k].url[x] \notin {"&", "<", ">", "\"", "'", "\n"}) =>
                      Contains(render_out, AnchorOpen \o render_segs[k].url \o AnchorMid)

\* A post text with two links was rendered, one url with an & in it.
C24_Witness ==
    /\ renderpc = "done"
    /\ Len(render_segs) = 2
    /\ render_segs[1].kind = "link"
    /\ render_segs[1].url = <<"u", "?", "a", "&", "b">>
    /\ render_segs[2].kind = "link"
    /\ render_segs[2].url = <<"u">>
    /\ Contains(render_out, AnchorOpen \o <<"u", "?", "a", "&", "a", "m", "p", ";", "b">> \o AnchorMid)

\* C29: the display text of every link of a post text is in the page with each
\* of & < > " ' as its entity, once: a raw < is &lt; there, not &amp;lt;.
C29_DisplayEscapedOnce ==
    renderpc = "done" =>
        \A k \in 1..Len(render_segs) :
            render_segs[k].kind = "link" =>
                Contains(render_out,
                         AnchorMid \o AnchorText(render_segs[k].display) \o <<"<", "/", "a", ">">>)

\* C30: main of main.py has not returned while a dialog it put on the queue is
\* not saved or not marked done.
C30_ReturnsAfterAllDone ==
    legacypc \in {"returned", "exited"} =>
        /\ legacy_unfinished = 0
        /\ legacy_saved = 1..legacy_nput

\* C10: a call whose request ended in a network error, a timeout, an HTTP error,
\* a content type that is no image, or an error while the body was written,
\* returns the original url as both elements.
C10_FetchFailureFallsBack ==
    \A k \in 1..Len(resolves) :
        (resolves[k].fetched /\ resolves[k].outcome # "ok") =>
            resolves[k].result = <<img_url, img_url>>

\* A call met a content type that is no image, another one a timeout.
C10_Witness ==
    /\ Len(resolves) = 2
    /\ resolves[1].outcome = "non_image"
    /\ resolves[2].outcome = "timeout"
    /\ resolves[2].result = <<img_url, img_url>>

====
